---- MODULE Spec2Model ----
(***************************************************************************)
(* A model of src/main.rs: the pipeline                                    *)
(*   get_solidity_sources -> build_solc_input_json -> solc::compile ->     *)
(*   serde_json::from_str -> build_contract_schemas -> fs::create_dir_all  *)
(*   -> write_contract_schemas -> println!                                 *)
(* together with the std::path operations the code calls on its paths.     *)
(*                                                                         *)
(* Strings are sequences of characters.  A character is "/", "." or an     *)
(* ordinary character; an element such as "contracts" or "json" stands for *)
(* a run of ordinary characters.                                           *)
(***************************************************************************)
EXTENDS Naturals, Sequences, FiniteSets, TLC

VARIABLES
    pc,          \* position of main: "start", "collected", "compiled", "parsed",
                 \* "built", "dir" (in the writer's loop), "done", "abort"
    run,         \* which execution of main this is (1 = first)
    prev,        \* how the previous execution ended: "none", "done", "abort"
    disk,        \* the files ./contracts/**/*.sol matches on disk
    solc,        \* what the external compiler answers for this source set
    dirExists,   \* whether ./build/contracts/ exists
    files,       \* the files on disk outside ./contracts: path -> content
    dir0,        \* dirExists when this execution started
    files0,      \* files when this execution started
    sources,     \* main's `sources`: path -> SolidityFile
    input,       \* main's `input`
    raw_output,  \* main's `raw_output`
    output,      \* main's `output`: SolcOutput
    artifacts,   \* main's `artifacts`
    writes,      \* the paths fs::write has written in this execution, in order
    stdout,      \* the summary lines printed by this execution (the counts)
    exit,        \* <<>> while running, <<0>> (main returned), <<101>> (panic)
    err          \* the call that panicked, "none" otherwise

vars == <<pc, run, prev, disk, solc, dirExists, files, dir0, files0, sources,
          input, raw_output, output, artifacts, writes, stdout, exit, err>>

(***************************************************************************)
(* Bounds of the model.                                                    *)
(***************************************************************************)
MaxEntities == 2   \* entities (path, name) in one compiler response
MaxRuns == 2       \* executions of main against the same sources
MaxPathLen == 3    \* characters of a path key given to build_contract_schemas

Sep == "/"
Dot == "."

(***************************************************************************)
(* std::path, as far as the code uses it.                                  *)
(***************************************************************************)
Last(s) == s[Len(s)]
Front(s) == SubSeq(s, 1, Len(s) - 1)

RECURSIVE Split(_)
\* The text between separators: "a//b" is <<"a", "", "b">>, "" is <<"">>.
Split(s) ==
    IF s = <<>> THEN << <<>> >>
    ELSE LET r == Split(Front(s))
         IN IF Last(s) = Sep THEN Append(r, <<>>)
            ELSE [r EXCEPT ![Len(r)] = Append(r[Len(r)], Last(s))]

RECURSIVE SelectSegs(_, _)
SelectSegs(segs, first) ==
    IF segs = <<>> THEN <<>>
    ELSE LET s == Head(segs)
             keep == /\ s # <<>>
                     /\ (s = <<Dot>> => first)
         IN (IF keep THEN <<s>> ELSE <<>>) \o SelectSegs(Tail(segs), FALSE)

\* Path::components without the root: empty segments are dropped, and so is
\* every "." except one that starts a relative path.
Components(path) ==
    LET segs == Split(path)
        rooted == path # <<>> /\ Head(path) = Sep
    IN IF rooted THEN SelectSegs(Tail(segs), FALSE) ELSE SelectSegs(segs, TRUE)

FileNameWholePath(path) == <<path>>

\* Path::file_name: the last component when it is a normal one.  <<>> is None,
\* <<name>> is Some(name).
FileName(path) ==
    LET c == Components(path)
    IN IF c = <<>> \/ Last(c) \in {<<Dot>>, <<Dot, Dot>>} THEN <<>>
       ELSE <<Last(c)>>

RECURSIVE LastDot(_)
\* The index of the last "." of a name, 0 when it has none.
LastDot(name) ==
    IF name = <<>> THEN 0
    ELSE IF Last(name) = Dot THEN Len(name) ELSE LastDot(Front(name))

\* Path::file_stem of a file name: the name up to its last ".", the whole name
\* when it has no "." or only a leading one.
FileStem(name) ==
    LET d == LastDot(name)
    IN IF name = <<Dot, Dot>> \/ d <= 1 THEN name ELSE SubSeq(name, 1, d - 1)

RECURSIVE FileNameEnd(_)
\* Where the file name of a path that has one ends: trailing separators and
\* trailing "." segments follow it.
FileNameEnd(path) ==
    IF path = <<>> THEN 0
    ELSE IF Last(path) = Sep THEN FileNameEnd(Front(path))
    ELSE IF Last(path) = Dot /\ Len(path) >= 2 /\ path[Len(path) - 1] = Sep
         THEN FileNameEnd(Front(path))
    ELSE Len(path)

\* PathBuf::push: an absolute path replaces the buffer; otherwise a separator
\* is added unless the buffer is empty or ends with one.
Push(buf, p) ==
    IF p # <<>> /\ Head(p) = Sep THEN p
    ELSE IF buf # <<>> /\ Last(buf) # Sep THEN buf \o <<Sep>> \o p
    ELSE buf \o p

\* PathBuf::set_extension: nothing when the path has no file name; otherwise
\* the path is cut right after the file stem and "." and the extension follow.
SetExtension(buf, ext) ==
    LET f == FileName(buf)
    IN IF f = <<>> THEN buf
       ELSE LET name == f[1]
                cut == FileNameEnd(buf) - (Len(name) - Len(FileStem(name)))
            IN SubSeq(buf, 1, cut) \o <<Dot>> \o ext

(***************************************************************************)
(* The data of main.rs.                                                    *)
(***************************************************************************)
EmptyMap == [x \in {} |-> x]

\* struct SolidityFile: the text of the file at `path`.
SolidityFile(path) == [content |-> <<"content", path>>]

\* struct SolcSource: what the compiler reports for the file at `path`.
SolcSource(path) == [ast |-> <<"ast", path>>]

\* struct SolcContract: what the compiler reports for entity `name` of `path`.
SolcContract(path, name) ==
    [evm |-> [bytecode |-> [object |-> <<"bytecode", path, name>>,
                            source_map |-> <<"sourceMap", path, name>>],
              deployed_bytecode |->
                  [object |-> <<"deployedBytecode", path, name>>,
                   source_map |-> <<"deployedSourceMap", path, name>>]],
     abi |-> <<"abi", path, name>>]

\* struct SolcOutput before anything is parsed.
NoOutput == [contracts |-> EmptyMap, sources |-> EmptyMap, errors |-> <<>>]

NoInput == [language |-> "", settings |-> EmptyMap, sources |-> EmptyMap]

\* let output_path = Path::new("./build/contracts/")
OutputPath == <<Dot, Sep, "build", Sep, "contracts", Sep>>

\* Paths the pattern ./contracts/**/*.sol can match.
GlobPaths ==
    { <<"contracts", Sep, "A", Dot, "sol">>,
      <<"contracts", Sep, "lib", Sep, "B", Dot, "sol">> }

\* Entity names a compiler response may use as keys (any JSON string is
\* accepted by the deserializer).
EntityNames == { <<"Foo">>, <<"Bar">>, <<"Foo", Dot, "x">>, <<>> }

\* The contracts mapping with keys `keys` and entities `ents` (pairs
\* <<path, name>>).
ContractsOf(keys, ents) ==
    [p \in keys |->
        [n \in {e[2] : e \in {x \in ents : x[1] = p}} |-> SolcContract(p, n)]]

\* Responses that deserialize into SolcOutput.
WellFormed(paths, names) ==
    { [kind |-> "ok",
       value |-> [contracts |-> ContractsOf(keys \cup {e[1] : e \in ents}, ents),
                  sources |-> [p \in metas |-> SolcSource(p)],
                  errors |-> <<>>]] :
        ents \in {E \in SUBSET (paths \X names) : Cardinality(E) <= MaxEntities},
        keys \in SUBSET paths,
        metas \in SUBSET paths }

\* What solc::compile may do: fail, answer something that does not
\* deserialize, or answer a SolcOutput.
SolcAnswers ==
    { [kind |-> "crash", value |-> NoOutput],
      [kind |-> "malformed", value |-> NoOutput] }
    \cup WellFormed(GlobPaths, EntityNames)

(***************************************************************************)
(* build_solc_input_json                                                   *)
(***************************************************************************)
BuildSolcInputJson(srcs, evm_version) ==
    [language |-> "Solidity",
     settings |-> [evmVersion |-> evm_version,
                   optimizer |-> [enabled |-> FALSE],
                   outputSelection |->
                       <<"ast", "abi", "evm.bytecode.object",
                         "evm.deployedBytecode.object">>],
     sources |-> srcs]

(***************************************************************************)
(* build_contract_schema and build_contract_schemas                        *)
(***************************************************************************)
\* build_contract_schema: <<artifact>>, or <<>> when file_name().unwrap()
\* panics.
BuildContractSchema(path, name, source, solc_source, solc_contract) ==
    LET f == FileName(path)
    IN IF f = <<>> THEN <<>>
       ELSE << [abi |-> solc_contract.abi,
                bytecode |-> solc_contract.evm.bytecode.object,
                deployed_bytecode |-> solc_contract.evm.deployed_bytecode.object,
                contract_name |-> name,
                file_name |-> f[1],
                ast |-> solc_source.ast,
                source_path |-> path,
                source |-> source,
                source_map |-> solc_contract.evm.bytecode.source_map,
                deployed_source_map |->
                    solc_contract.evm.deployed_bytecode.source_map] >>

GetSolcSourceOrDefault(out, path) ==
    IF path \in DOMAIN out.sources THEN <<out.sources[path]>>
    ELSE << [ast |-> <<>>] >>

\* output.sources.get(path): <<>> is None.
GetSolcSource(out, path) ==
    IF path \in DOMAIN out.sources THEN <<out.sources[path]>> ELSE <<>>

GetSourceFileOrDefault(srcs, path) ==
    IF path \in DOMAIN srcs THEN <<srcs[path]>> ELSE << [content |-> <<>>] >>

\* sources.get(path): <<>> is None.
GetSourceFile(srcs, path) ==
    IF path \in DOMAIN srcs THEN <<srcs[path]>> ELSE <<>>

Ok(arts) == [ok |-> TRUE, artifacts |-> arts, err |-> "none"]
Panic(site) == [ok |-> FALSE, artifacts |-> <<>>, err |-> site]

RECURSIVE MapEntities(_, _, _, _, _)
\* The inner `contracts.iter().map(..)` of one path, its names taken in the
\* order `names`: each step looks the source text up and builds the artifact.
MapEntities(out, srcs, path, solc_source, names) ==
    IF names = <<>> THEN Ok(<<>>)
    ELSE LET name == Head(names)
             file == GetSourceFile(srcs, path)
         IN IF file = <<>> THEN Panic("sources.get")
            ELSE LET a == BuildContractSchema(path, name, file[1].content,
                                              solc_source,
                                              out.contracts[path][name])
                 IN IF a = <<>> THEN Panic("file_name")
                    ELSE LET rest == MapEntities(out, srcs, path, solc_source,
                                                 Tail(names))
                         IN IF rest.ok THEN Ok(a \o rest.artifacts) ELSE rest

RECURSIVE FlatMapPaths(_, _, _, _)
\* The outer `output.contracts.iter().flat_map(..)`, the paths taken in the
\* order `paths` and the names of path p in the order nameOrder[p].
FlatMapPaths(out, srcs, paths, nameOrder) ==
    IF paths = <<>> THEN Ok(<<>>)
    ELSE LET path == Head(paths)
             meta == GetSolcSource(out, path)
         IN IF meta = <<>> THEN Panic("output.sources.get")
            ELSE LET here == MapEntities(out, srcs, path, meta[1],
                                         nameOrder[path])
                 IN IF ~here.ok THEN here
                    ELSE LET rest == FlatMapPaths(out, srcs, Tail(paths),
                                                  nameOrder)
                         IN IF rest.ok
                            THEN Ok(here.artifacts \o rest.artifacts)
                            ELSE rest

\* The orders a HashMap may iterate a key set in.
Perms(S) ==
    {s \in [1..Cardinality(S) -> S] : \A i, j \in DOMAIN s : s[i] = s[j] => i = j}

BuildContractSchemasResultsOnePerPath(out, srcs) ==
    { FlatMapPaths(out, srcs, paths, nameOrder) :
        paths \in Perms(DOMAIN out.contracts),
        nameOrder \in
            {o \in [DOMAIN out.contracts ->
                      {<<>>} \cup UNION {{<<n>> : n \in DOMAIN out.contracts[p]} :
                                             p \in DOMAIN out.contracts}] :
                \A p \in DOMAIN o :
                    /\ \A i \in DOMAIN o[p] : o[p][i] \in DOMAIN out.contracts[p]
                    /\ DOMAIN out.contracts[p] # {} => o[p] # <<>>} }

\* What build_contract_schemas may return for (out, srcs): one result per
\* iteration order of the two levels of HashMap.
BuildContractSchemasResults(out, srcs) ==
    { FlatMapPaths(out, srcs, paths, nameOrder) :
        paths \in Perms(DOMAIN out.contracts),
        nameOrder \in
            {o \in [DOMAIN out.contracts ->
                      UNION {Perms(DOMAIN out.contracts[p]) :
                                 p \in DOMAIN out.contracts}] :
                \A p \in DOMAIN o : o[p] \in Perms(DOMAIN out.contracts[p])} }

(***************************************************************************)
(* write_contract_schemas                                                  *)
(***************************************************************************)
\* serde_json::to_string_pretty of a SolidityArtifact (rename_all =
\* "camelCase"): the text of the JSON object.
ToStringPretty(a) ==
    [contractName |-> a.contract_name,
     fileName |-> a.file_name,
     sourcePath |-> a.source_path,
     source |-> a.source,
     bytecode |-> a.bytecode,
     deployedBytecode |-> a.deployed_bytecode,
     sourceMap |-> a.source_map,
     deployedSourceMap |-> a.deployed_source_map,
     abi |-> a.abi,
     ast |-> a.ast]

\* The content of a file that holds the whole of `text`.
Whole(text) == [text |-> text, whole |-> TRUE]

\* The content of a file that was created or truncated for `text` and holds
\* only a proper prefix of it.
Cut(text) == [text |-> text, whole |-> FALSE]

\* The path of the file of an entity: a fresh PathBuf of output_path,
\* push(contract_name), set_extension("json").
ArtifactPath(output_path, contract_name) ==
    SetExtension(Push(output_path, contract_name), <<"json">>)

RECURSIVE WriteTargetShared(_, _)
WriteTargetShared(arts, k) ==
    SetExtension(Push(IF k = 1 THEN OutputPath
                      ELSE WriteTargetShared(arts, k - 1),
                      arts[k].contract_name), <<"json">>)

\* The path iteration k of the loop writes to.
WriteTarget(arts, k) == ArtifactPath(OutputPath, arts[k].contract_name)

\* `fs` with `path` holding `content`.
Written(fs, path, content) ==
    [p \in DOMAIN fs \cup {path} |-> IF p = path THEN content ELSE fs[p]]

(***************************************************************************)
(* main, one action per call that can fail.                                *)
(***************************************************************************)
Abort(site) ==
    /\ pc' = "abort"
    /\ exit' = <<101>>
    /\ err' = site

GetSoliditySourcesNoMatchFails ==
    /\ pc = "start"
    /\ \/ /\ disk # {}
          /\ pc' = "collected"
          /\ sources' = [p \in disk |-> SolidityFile(p)]
          /\ UNCHANGED <<exit, err>>
       \/ /\ Abort("read_to_string")
          /\ UNCHANGED sources
    /\ UNCHANGED <<run, prev, disk, solc, dirExists, files, dir0, files0, input,
                   raw_output, output, artifacts, writes, stdout>>

\* let sources = get_solidity_sources(): every matched file is read; a file
\* that cannot be read panics.
GetSoliditySources ==
    /\ pc = "start"
    /\ \/ /\ pc' = "collected"
          /\ sources' = [p \in disk |-> SolidityFile(p)]
          /\ UNCHANGED <<exit, err>>
       \/ /\ disk # {}
          /\ Abort("read_to_string")
          /\ UNCHANGED sources
    /\ UNCHANGED <<run, prev, disk, solc, dirExists, files, dir0, files0, input,
                   raw_output, output, artifacts, writes, stdout>>

\* let input = build_solc_input_json(..); let raw_output = solc::compile(..)
Compile ==
    /\ pc = "collected"
    /\ input' = BuildSolcInputJson(sources, "byzantium")
    /\ \/ /\ solc.kind # "crash"
          /\ pc' = "compiled"
          /\ raw_output' = solc
          /\ UNCHANGED <<exit, err>>
       \/ /\ solc.kind = "crash"
          /\ Abort("solc::compile")
          /\ UNCHANGED raw_output
    /\ UNCHANGED <<run, prev, disk, solc, dirExists, files, dir0, files0,
                   sources, output, artifacts, writes, stdout>>

\* let output: SolcOutput = serde_json::from_str(&raw_output).unwrap()
ParseOutput ==
    /\ pc = "compiled"
    /\ \/ /\ raw_output.kind = "ok"
          /\ pc' = "parsed"
          /\ output' = raw_output.value
          /\ UNCHANGED <<exit, err>>
       \/ /\ raw_output.kind # "ok"
          /\ Abort("serde_json::from_str")
          /\ UNCHANGED output
    /\ UNCHANGED <<run, prev, disk, solc, dirExists, files, dir0, files0,
                   sources, input, raw_output, artifacts, writes, stdout>>

\* let artifacts = build_contract_schemas(&output, &sources)
BuildContractSchemas ==
    /\ pc = "parsed"
    /\ \E r \in BuildContractSchemasResults(output, sources) :
          \/ /\ r.ok
             /\ pc' = "built"
             /\ artifacts' = r.artifacts
             /\ UNCHANGED <<exit, err>>
          \/ /\ ~r.ok
             /\ Abort(r.err)
             /\ UNCHANGED artifacts
    /\ UNCHANGED <<run, prev, disk, solc, dirExists, files, dir0, files0,
                   sources, input, raw_output, output, writes, stdout>>

\* fs::create_dir_all(output_path).expect(..): nothing to do when the
\* directory exists; creating it may fail.
CreateDirAll ==
    /\ pc = "built"
    /\ \/ /\ pc' = "dir"
          /\ dirExists' = TRUE
          /\ UNCHANGED <<exit, err>>
       \/ /\ ~dirExists
          /\ Abort("fs::create_dir_all")
          /\ UNCHANGED dirExists
    /\ UNCHANGED <<run, prev, disk, solc, files, dir0, files0, sources, input,
                   raw_output, output, artifacts, writes, stdout>>

\* One iteration of the loop of write_contract_schemas in which fs::write
\* succeeds: the file holds the whole JSON text.
WriteArtifact ==
    /\ pc = "dir"
    /\ Len(writes) < Len(artifacts)
    /\ LET k == Len(writes) + 1
           path == WriteTarget(artifacts, k)
       IN /\ FileName(path) # <<>>
          /\ files' = Written(files, path, Whole(ToStringPretty(artifacts[k])))
          /\ writes' = Append(writes, path)
    /\ UNCHANGED <<pc, run, prev, disk, solc, dirExists, dir0, files0, sources,
                   input, raw_output, output, artifacts, stdout, exit, err>>

WriteArtifactFailsIgnored ==
    /\ pc = "dir"
    /\ Len(writes) < Len(artifacts)
    /\ writes' = Append(writes, WriteTarget(artifacts, Len(writes) + 1))
    /\ UNCHANGED <<pc, run, prev, disk, solc, dirExists, files, dir0, files0,
                   sources, input, raw_output, output, artifacts, stdout, exit,
                   err>>

WriteArtifactFailsRollback ==
    /\ pc = "dir"
    /\ Len(writes) < Len(artifacts)
    /\ files' = files0
    /\ Abort("fs::write")
    /\ UNCHANGED <<run, prev, disk, solc, dirExists, dir0, files0, sources,
                   input, raw_output, output, artifacts, writes, stdout>>

\* One iteration in which fs::write fails: either the file could not be
\* opened and nothing changed, or it was created or truncated and the write
\* then failed (a file name is needed for that).  expect() panics.
WriteArtifactFails ==
    /\ pc = "dir"
    /\ Len(writes) < Len(artifacts)
    /\ LET k == Len(writes) + 1
           path == WriteTarget(artifacts, k)
       IN \/ files' = files
          \/ /\ FileName(path) # <<>>
             /\ files' = Written(files, path, Cut(ToStringPretty(artifacts[k])))
    /\ Abort("fs::write")
    /\ UNCHANGED <<run, prev, disk, solc, dirExists, dir0, files0, sources,
                   input, raw_output, output, artifacts, writes, stdout>>

\* write_contract_schemas returns; println!("Compiled {} artifacts ..") and
\* main returns.
PrintSummary ==
    /\ pc = "dir"
    /\ Len(writes) = Len(artifacts)
    /\ stdout' = Append(stdout, Len(artifacts))
    /\ pc' = "done"
    /\ exit' = <<0>>
    /\ UNCHANGED <<run, prev, disk, solc, dirExists, files, dir0, files0,
                   sources, input, raw_output, output, artifacts, writes, err>>

\* The tool is run again on the same sources: a new process, the same disk.
Rerun ==
    /\ pc \in {"done", "abort"}
    /\ run < MaxRuns
    /\ run' = run + 1
    /\ prev' = pc
    /\ pc' = "start"
    /\ dir0' = dirExists
    /\ files0' = files
    /\ sources' = EmptyMap
    /\ input' = NoInput
    /\ raw_output' = [kind |-> "none", value |-> NoOutput]
    /\ output' = NoOutput
    /\ artifacts' = <<>>
    /\ writes' = <<>>
    /\ stdout' = <<>>
    /\ exit' = <<>>
    /\ err' = "none"
    /\ UNCHANGED <<disk, solc, dirExists, files>>

Init ==
    /\ pc = "start"
    /\ run = 1
    /\ prev = "none"
    /\ disk \in SUBSET GlobPaths
    /\ solc \in SolcAnswers
    /\ dirExists \in BOOLEAN
    /\ files = EmptyMap
    /\ dir0 = dirExists
    /\ files0 = files
    /\ sources = EmptyMap
    /\ input = NoInput
    /\ raw_output = [kind |-> "none", value |-> NoOutput]
    /\ output = NoOutput
    /\ artifacts = <<>>
    /\ writes = <<>>
    /\ stdout = <<>>
    /\ exit = <<>>
    /\ err = "none"

Next ==
    \/ GetSoliditySources
    \/ Compile
    \/ ParseOutput
    \/ BuildContractSchemas
    \/ CreateDirAll
    \/ WriteArtifact
    \/ WriteArtifactFails
    \/ PrintSummary
    \/ Rerun

Spec == Init /\ [][Next]_vars

(***************************************************************************)
(* build_contract_schemas on its own: one path key of any shape, present   *)
(* or not in the two mappings it is looked up in.                          *)
(***************************************************************************)
PathAlphabet == {"a", Dot, Sep}

PathStrings == UNION {[1..k -> PathAlphabet] : k \in 0..MaxPathLen}

InitDecomposer ==
    /\ pc = "parsed"
    /\ run = 1
    /\ prev = "none"
    /\ disk = {}
    /\ \E p \in PathStrings :
          /\ solc \in WellFormed({p}, {<<"Foo">>, <<"Bar">>})
          /\ sources \in {[q \in S |-> SolidityFile(q)] : S \in SUBSET {p}}
    /\ dirExists = FALSE
    /\ files = EmptyMap
    /\ dir0 = dirExists
    /\ files0 = files
    /\ input = BuildSolcInputJson(sources, "byzantium")
    /\ raw_output = solc
    /\ output = solc.value
    /\ artifacts = <<>>
    /\ writes = <<>>
    /\ stdout = <<>>
    /\ exit = <<>>
    /\ err = "none"

NextDecomposer == BuildContractSchemas

SpecDecomposer == InitDecomposer /\ [][NextDecomposer]_vars

(***************************************************************************)
(* Properties.                                                             *)
(***************************************************************************)
BuildSites == {"output.sources.get", "sources.get", "file_name"}

\* build_contract_schemas has returned in this execution.
BuildReturned ==
    \/ pc \in {"built", "dir", "done"}
    \/ pc = "abort" /\ err \in {"fs::create_dir_all", "fs::write"}

\* build_contract_schemas has panicked in this execution.
BuildPanicked == pc = "abort" /\ err \in BuildSites

\* The entities of the response: pairs <<path, name>>.
Entities(out) ==
    UNION {{<<p, n>> : n \in DOMAIN out.contracts[p]} : p \in DOMAIN out.contracts}

\* Every path key of contracts is a key of output.sources and of sources.
Consistent ==
    \A p \in DOMAIN output.contracts :
        p \in DOMAIN output.sources /\ p \in DOMAIN sources

\* One artifact per entity: the artifacts are the entities, each once.
OnePerEntity ==
    /\ Len(artifacts) = Cardinality(Entities(output))
    /\ \A e \in Entities(output) :
          \E k \in DOMAIN artifacts :
              /\ artifacts[k].source_path = e[1]
              /\ artifacts[k].contract_name = e[2]

\* C1 as stated: when every path key of contracts is a key of output.sources
\* and of sources, build_contract_schemas returns, with as many artifacts as
\* there are entities, each with a non-empty contract_name and source_path.
C1_Original ==
    (Consistent /\ (BuildReturned \/ BuildPanicked)) =>
        /\ BuildReturned
        /\ Len(artifacts) = Cardinality(Entities(output))
        /\ \A k \in DOMAIN artifacts :
              artifacts[k].contract_name # <<>> /\ artifacts[k].source_path # <<>>

\* C1 amended: under the same condition build_contract_schemas returns one
\* artifact per entity; every artifact has a non-empty source_path, and its
\* contract_name is the entity's key in the response (so it is empty exactly
\* when the response uses the empty string as an entity name).
C1_OnePerEntity ==
    (Consistent /\ (BuildReturned \/ BuildPanicked)) =>
        /\ BuildReturned
        /\ OnePerEntity
        /\ \A k \in DOMAIN artifacts :
              /\ artifacts[k].source_path # <<>>
              /\ <<artifacts[k].source_path, artifacts[k].contract_name>>
                     \in Entities(output)

C1_Witness ==
    /\ Consistent
    /\ pc = "built"
    /\ Len(artifacts) >= 2
    /\ \E j, k \in DOMAIN artifacts :
          artifacts[j].source_path # artifacts[k].source_path

\* Some path key of contracts is missing from output.sources.
MissingSourceMeta ==
    \E p \in DOMAIN output.contracts : p \notin DOMAIN output.sources

\* C2: when contracts has a path that sources of the response lacks, the
\* execution gets no further than build_contract_schemas, where it panics:
\* the directory is not created, nothing is written or printed, and main
\* does not return.
C2_AbortsBeforeOutput ==
    MissingSourceMeta =>
        /\ pc \in {"parsed", "abort"}
        /\ pc = "abort" => err \in BuildSites /\ exit = <<101>>
        /\ dirExists = dir0
        /\ files = files0
        /\ writes = <<>>
        /\ stdout = <<>>
        /\ exit # <<0>>

C2_Witness ==
    /\ MissingSourceMeta
    /\ pc = "abort"
    /\ err = "output.sources.get"
    /\ \E p \in DOMAIN output.contracts :
          /\ p \in DOMAIN output.sources
          /\ p \in DOMAIN sources
          /\ DOMAIN output.contracts[p] # {}

\* C3 as stated: when some path key of contracts is not a key of sources,
\* build_contract_schemas fails and returns no artifacts, also when the path
\* has no entities.
C3_Original ==
    ((\E p \in DOMAIN output.contracts : p \notin DOMAIN sources)
        /\ (BuildReturned \/ BuildPanicked)) =>
        BuildPanicked /\ artifacts = <<>>

\* C3 amended: when some path key of contracts that has at least one entity
\* is not a key of sources, build_contract_schemas fails and returns no
\* artifacts; the lookup is made once per entity, so it fails for the missing
\* source text only when such a path exists.
C3_FailsForPathWithEntities ==
    /\ ((\E e \in Entities(output) : e[1] \notin DOMAIN sources)
           /\ (BuildReturned \/ BuildPanicked)) =>
           BuildPanicked /\ artifacts = <<>>
    /\ (pc = "abort" /\ err = "sources.get") =>
           \E e \in Entities(output) : e[1] \notin DOMAIN sources

C3_Witness ==
    /\ pc = "abort"
    /\ err = "sources.get"
    /\ ~MissingSourceMeta
    /\ \E e \in Entities(output) : e[1] \notin DOMAIN sources

\* The index of the last artifact written to the file artifact k is written to.
LastTo(arts, k) ==
    CHOOSE j \in DOMAIN arts :
        /\ WriteTarget(arts, j) = WriteTarget(arts, k)
        /\ \A i \in DOMAIN arts :
              WriteTarget(arts, i) = WriteTarget(arts, k) => i <= j

\* The index of the last artifact that has the name of artifact k.
LastNamed(arts, k) ==
    CHOOSE j \in DOMAIN arts :
        /\ arts[j].contract_name = arts[k].contract_name
        /\ \A i \in DOMAIN arts :
              arts[i].contract_name = arts[k].contract_name => i <= j

\* <output_dir>/<contract_name>.json
NamedFile(contract_name) == OutputPath \o contract_name \o <<Dot, "json">>

\* The files of the output directory whose stem is contract_name.
FilesNamed(contract_name) ==
    {f \in DOMAIN files :
        \E ext \in {<<>>, <<Dot, "json">>} : f = OutputPath \o contract_name \o ext}

NoSharedFile ==
    \A e1, e2 \in Entities(solc.value) :
        ArtifactPath(OutputPath, e1[2]) = ArtifactPath(OutputPath, e2[2])
            => e1 = e2

\* C5 as stated: a second complete execution against the same sources and the
\* same compiler response leaves the files as the first left them.
C5_Original ==
    (run >= 2 /\ prev = "done" /\ pc = "done") => files = files0

\* C5 amended: it does when no two entities of the response are written to
\* the same file.
C5_IdempotentWithoutSharedFile ==
    (run >= 2 /\ prev = "done" /\ pc = "done" /\ NoSharedFile) => files = files0

C5_Witness ==
    /\ run = 2
    /\ prev = "done"
    /\ pc = "done"
    /\ NoSharedFile
    /\ Len(artifacts) >= 2
    /\ files = files0

\* C7 as stated, for the non-empty names: every artifact is written to
\* <output_dir>/<contract_name>.json, so artifacts with different names go to
\* different files.
C7_Original ==
    /\ \A k \in DOMAIN writes :
          artifacts[k].contract_name # <<>> =>
              writes[k] = NamedFile(artifacts[k].contract_name)
    /\ \A j, k \in DOMAIN writes :
          (/\ artifacts[j].contract_name # <<>>
           /\ artifacts[k].contract_name # <<>>
           /\ artifacts[j].contract_name # artifacts[k].contract_name)
              => writes[j] # writes[k]

\* The response names no entity, and every path key of its contracts is a key
\* of its sources.
AnswersNoEntity ==
    /\ solc.kind = "ok"
    /\ Entities(solc.value) = {}
    /\ DOMAIN solc.value.contracts \subseteq DOMAIN solc.value.sources

\* What an execution that found no source file leaves when it has returned.
EmptyRunDone ==
    /\ artifacts = <<>>
    /\ dirExists
    /\ writes = <<>>
    /\ files = files0
    /\ stdout = <<0>>
    /\ exit = <<0>>

AllWritten ==
    /\ Len(writes) = Len(artifacts)
    /\ \A k \in DOMAIN artifacts :
          /\ WriteTarget(artifacts, k) \in DOMAIN files
          /\ files[WriteTarget(artifacts, k)]
                 = Whole(ToStringPretty(artifacts[LastTo(artifacts, k)]))

\* The call that fails at each position of main.
SiteOf(at) ==
    CASE at = "start" -> {"read_to_string"}
      [] at = "collected" -> {"solc::compile"}
      [] at = "compiled" -> {"serde_json::from_str"}
      [] at = "parsed" -> BuildSites
      [] at = "built" -> {"fs::create_dir_all"}
      [] at = "dir" -> {"fs::write"}
      [] OTHER -> {}

C9_State ==
    /\ Len(stdout) <= 1
    /\ stdout # <<>> =>
          /\ pc = "done"
          /\ AllWritten
          /\ stdout = <<Len(artifacts)>>
    /\ pc = "done" <=> exit = <<0>>
    /\ pc = "abort" <=> exit = <<101>>
    /\ pc = "abort" => stdout = <<>> /\ err # "none"
    /\ pc = "done" => stdout # <<>>

C9_Step ==
    /\ (pc # "abort" /\ pc' = "abort") => err' \in SiteOf(pc)
    /\ pc \in {"abort", "done"} =>
          /\ pc' = "start"
          /\ run' = run + 1
          /\ files' = files
          /\ dirExists' = dirExists

\* C9: the summary line is printed at most once, only when every artifact has
\* been written, and it reports the number of artifacts; a failure at any
\* stage ends the execution at that stage with a nonzero status and no
\* summary line, and nothing of that execution happens afterwards.
C9_SummaryOnlyOnSuccess == [](C9_State) /\ [][C9_Step]_vars

C9_Witness ==
    /\ pc = "done"
    /\ stdout = <<2>>
    /\ Len(writes) = 2

RECURSIVE ApplyWrites(_, _, _)
\* `fs` after the first n artifacts have been written in order.
ApplyWrites(fs, arts, n) ==
    IF n = 0 THEN fs
    ELSE Written(ApplyWrites(fs, arts, n - 1), WriteTarget(arts, n),
                 Whole(ToStringPretty(arts[n])))

\* The files as the writes made so far in this execution leave them.
PrefixFiles == ApplyWrites(files0, artifacts, Len(writes))

WriteFailed == pc = "abort" /\ err = "fs::write"

\* C10 as stated: when the write of artifact k fails, the files are exactly
\* those the writes of the artifacts before k left, over what was there
\* before the execution.
C10_Original == WriteFailed => files = PrefixFiles

\* C10 amended: when the write of artifact k fails the writer stops, and no
\* later artifact is written; every file but the one the failed write was
\* for is as the writes of the artifacts before k left it, and that one is
\* either left as it was or left created or truncated with only part of
\* artifact k's text, also when an earlier artifact had been written to it.
C10_PrefixButFailedTarget ==
    /\ pc = "dir" => files = PrefixFiles
    /\ WriteFailed =>
          LET k == Len(writes) + 1
              t == WriteTarget(artifacts, k)
          IN /\ k \in DOMAIN artifacts
             /\ ~ENABLED WriteArtifact
             /\ DOMAIN files \ {t} = DOMAIN PrefixFiles \ {t}
             /\ \A f \in DOMAIN files \ {t} : files[f] = PrefixFiles[f]
             /\ \/ files = PrefixFiles
                \/ t \in DOMAIN files
                   /\ files[t] = Cut(ToStringPretty(artifacts[k]))

C10_Witness ==
    /\ WriteFailed
    /\ Len(writes) = 1
    /\ files # PrefixFiles
    /\ WriteTarget(artifacts, 2) = writes[1]

\* `f` is the last component of `p`: a non-empty run of characters without a
\* separator, other than "." and "..", that starts `p` or follows a
\* separator, and that only separators and "." segments follow.
IsLastComponent(f, p) ==
    /\ f # <<>>
    /\ f \notin {<<Dot>>, <<Dot, Dot>>}
    /\ \A i \in DOMAIN f : f[i] # Sep
    /\ \E i \in DOMAIN p :
          LET j == i + Len(f) - 1
          IN /\ j <= Len(p)
             /\ SubSeq(p, i, j) = f
             /\ i = 1 \/ p[i - 1] = Sep
             /\ \A m \in (j + 1)..Len(p) :
                   \/ p[m] = Sep
                   \/ /\ p[m] = Dot
                      /\ p[m - 1] = Sep
                      /\ m = Len(p) \/ p[m + 1] = Sep

\* C6: every artifact's file_name is the last component of its source_path,
\* and its source_path is the path key the entity is under in contracts.
C6_FileNameIsBasename ==
    \A k \in DOMAIN artifacts :
        LET a == artifacts[k]
        IN /\ IsLastComponent(a.file_name, a.source_path)
           /\ <<a.source_path, a.contract_name>> \in Entities(output)
           /\ a.abi = output.contracts[a.source_path][a.contract_name].abi

C6_Witness ==
    /\ pc = "built"
    /\ \E k \in DOMAIN artifacts :
          /\ \E i \in DOMAIN artifacts[k].source_path :
                artifacts[k].source_path[i] = Sep
          /\ Last(artifacts[k].source_path) \notin {Dot, Sep}
          /\ artifacts[k].file_name # artifacts[k].source_path

====
